---- MODULE Spec2Model ----
(***************************************************************************)
(* A model of lazy_writer.py: the Model registry (add_variable,            *)
(* add_objective, add_constraints, sum), the generators its factories      *)
(* return, and the writers (Model.write, Model.write_expr, lazy_writer).   *)
(*                                                                         *)
(* A Python string is a sequence of one-character strings, so that len(),  *)
(* s[0] and concatenation are the sequence operations.  A Python value is  *)
(* a record whose field t is its type.                                     *)
(***************************************************************************)
EXTENDS Integers, Sequences, FiniteSets, TLC

VARIABLES
    variables,          \* self.variables: name -> record of the declaration
    constraints,        \* self.constraints: the dict, as its items in insertion order
    constraint_block,   \* self.constraint_block
    objective_expr,     \* self.objective_expr (Unset until add_objective)
    objective_sense,    \* self.objective_sense (Unset until add_objective)
    frames,             \* the add_variable call frames captured by a bound lambda
    made,               \* the factories the caller holds (results of sum)
    heap,               \* the index iterators created so far: [seq, pos]
    gens,               \* the generators the caller holds (results of calling a factory)
    pc,                 \* position of the running writer ("idle" when none runs)
    caller,             \* who called write_expr: "write" or "user"
    expr,               \* write_expr: the expression being written
    k,                  \* write_expr: 1-based position of lam in expr
    comp,               \* write_expr / lazy_writer: the generator being drained
    line,               \* the pending line: a sequence of words
    line_length,        \* the pending line's accounted length
    appnd,              \* write_expr: the suffix (None when absent)
    sink,               \* the file: the strings written to it, in order
    last,               \* the most recent call: [op, a, exc, ret]
    calls               \* number of calls made so far

regVars == <<variables, constraints, constraint_block, objective_expr,
             objective_sense, frames>>
genVars == <<heap, gens>>
wrVars  == <<pc, caller, expr, k, comp, line, line_length, appnd, sink>>
vars    == <<regVars, made, genVars, wrVars, last, calls>>

----------------------------------------------------------------------------
(* Bounds of the model.                                                    *)

\* calls made on one Model before the model stops taking new calls
MaxCalls == 4
\* words in a sequence handed to lazy_writer
MaxWords == 3
\* factories the caller keeps from sum
MaxMade == 2
\* factories in one expression
MaxFactories == 2
\* generators the caller keeps from calling factories
MaxGens == 2

----------------------------------------------------------------------------
(* Python values.                                                          *)

None     == [t |-> "NoneType"]
\* an attribute that was never assigned
Unset    == [t |-> "unset"]
PyInt(n)   == [t |-> "int", v |-> n]
\* a float, by the number of halves it holds (PyFloat(5) is 2.5)
PyFloat(h) == [t |-> "float", v |-> h]
PyStr(s)   == [t |-> "str", v |-> s]
PyList(xs) == [t |-> "list", v |-> xs]
PyDict(f)  == [t |-> "dict", v |-> f]

Type(v) == v.t

\* bool(v), as `not v` uses it
Truthy(v) ==
    CASE Type(v) = "NoneType" -> FALSE
      [] Type(v) = "int"      -> v.v # 0
      [] Type(v) = "float"    -> v.v # 0
      [] Type(v) = "str"      -> Len(v.v) > 0
      [] Type(v) = "list"     -> Len(v.v) > 0
      [] Type(v) = "dict"     -> DOMAIN v.v # {}
      [] OTHER                -> TRUE

\* n copies of the character c
Rep(c, n) == [i \in 1..n |-> c]

\* the concatenation of a sequence of strings: ''.join(ws)
RECURSIVE Join(_)
Join(ws) == IF ws = <<>> THEN <<>> ELSE Head(ws) \o Join(Tail(ws))

Digit(d) == <<"0", "1", "2", "3", "4", "5", "6", "7", "8", "9">>[d + 1]

RECURSIVE NatStr(_)
NatStr(n) == IF n < 10 THEN <<Digit(n)>> ELSE NatStr(n \div 10) \o <<Digit(n % 10)>>

\* str(n) of an int, as an f-string formats it
IntStr(n) == IF n < 0 THEN <<"-">> \o NatStr(-n) ELSE NatStr(n)

NL == "\n"

----------------------------------------------------------------------------
(* Model.__init__ and the registry's dict.                                 *)

\* a list of kinds that lacks the last one
var_types_short ==
    { "Real", "nonnegative_Real", "nonpositive_Real", "positive_Real",
      "negative_Real", "Integer", "nonnegative_Integer", "nonpositive_Integer",
      "positive_Integer", "negative_Integer" }

\* self.var_types
var_types ==
    { "Real", "nonnegative_Real", "nonpositive_Real", "positive_Real",
      "negative_Real", "Integer", "nonnegative_Integer", "nonpositive_Integer",
      "positive_Integer", "negative_Integer", "Binary" }

\* str, types.FunctionType, types.LambdaType (the same type) and list
expr_types == { "str", "function", "list" }

\* a dict is the sequence of its items [key, val] in insertion order
HasKey(d, key) == \E j \in 1..Len(d) : d[j].key = key

Get(d, key) == d[CHOOSE j \in 1..Len(d) : d[j].key = key].val

\* d[key] = val: a present key keeps its place, a new one goes last
DictSet(d, key, val) ==
    IF HasKey(d, key)
    THEN [j \in 1..Len(d) |-> IF d[j].key = key THEN [key |-> key, val |-> val] ELSE d[j]]
    ELSE Append(d, [key |-> key, val |-> val])

InitRegistry ==
    /\ variables = <<>>
    /\ constraints = <<>>
    /\ constraint_block = 0
    /\ objective_expr = Unset
    /\ objective_sense = Unset
    /\ frames = <<>>

\* the record of one call: its name, arguments, the exception it raised
\* ("none" when it returned) and the value it returned
Call(op, a, exc, ret) == [op |-> op, a |-> a, exc |-> exc, ret |-> ret]

\* a check_expr that takes no literal string
BadExprNoStr(e) == Type(e) \notin expr_types \ {"str"}

\* check_expr raises
BadExpr(e) == Type(e) \notin expr_types

----------------------------------------------------------------------------
(* add_variable                                                            *)

\* `lambda: upper_bounds` made in call frame fid: a function that reads the
\* frame's cell when it is called
BoundLambda(cell, fid) == [t |-> "function", f |-> "cell", cell |-> cell, frame |-> fid]

IsScalar(b) == Type(b) \in {"int", "float"}

\* the bound after `if type(b) in [int, float]: b = lambda: b`
NormBound(b, cell, fid) == IF IsScalar(b) THEN BoundLambda(cell, fid) ELSE b

\* calling a stored bound lambda: the value its cell holds now
CallBound(fn, fs) == fs[fn.frame][fn.cell]

AddVariable(name, variable_type, upper_bounds, lower_bounds, default_index) ==
    /\ pc = "idle"
    /\ calls < MaxCalls
    /\ calls' = calls + 1
    /\ LET fid == Len(frames) + 1
           ub  == NormBound(upper_bounds, "upper_bounds", fid)
           lb  == NormBound(lower_bounds, "lower_bounds", fid)
           a   == [name |-> name, variable_type |-> variable_type,
                   upper_bounds |-> upper_bounds, lower_bounds |-> lower_bounds,
                   default_index |-> default_index]
       IN  IF variable_type \notin var_types
           THEN /\ last' = Call("add_variable", a, "ValueError", None)
                /\ UNCHANGED regVars
           ELSE /\ variables' =
                      [n \in DOMAIN variables \cup {name} |->
                          IF n = name
                          THEN [variable_type |-> variable_type,
                                upper_bounds |-> ub,
                                lower_bounds |-> lb,
                                default_index |-> default_index]
                          ELSE variables[n]]
                \* the frame outlives the call only when a lambda closes over it;
                \* its cells hold what the call last assigned to them
                /\ frames' = IF IsScalar(upper_bounds) \/ IsScalar(lower_bounds)
                             THEN Append(frames, [upper_bounds |-> ub, lower_bounds |-> lb])
                             ELSE frames
                /\ last' = Call("add_variable", a, "none", None)
                /\ UNCHANGED <<constraints, constraint_block, objective_expr,
                               objective_sense>>
    /\ UNCHANGED <<made, genVars, wrVars>>

----------------------------------------------------------------------------
(* add_objective, add_constraints                                          *)

MIN == <<"M", "I", "N">>
MAX == <<"M", "A", "X">>

AddObjective(expression, sense) ==
    /\ pc = "idle"
    /\ calls < MaxCalls
    /\ calls' = calls + 1
    /\ LET a == [expression |-> expression, sense |-> sense]
       IN  IF BadExpr(expression) \/ sense \notin {MIN, MAX}
           THEN /\ last' = Call("add_objective", a, "ValueError", None)
                /\ UNCHANGED regVars
           ELSE /\ objective_expr' = IF Type(expression) = "list"
                                     THEN expression
                                     ELSE PyList(<<expression>>)
                /\ objective_sense' = sense
                /\ last' = Call("add_objective", a, "none", None)
                /\ UNCHANGED <<variables, constraints, constraint_block, frames>>
    /\ UNCHANGED <<made, genVars, wrVars>>

\* a key taken after the counter was incremented
AutoKeyFromOne(cb) == PyInt(cb + 1)

\* the key of a block declared without block_name: self.constraint_block
AutoKey(cb) == PyInt(cb)

AddConstraints(expression, sense, rhs, index, block_name) ==
    /\ pc = "idle"
    /\ calls < MaxCalls
    /\ calls' = calls + 1
    /\ LET a == [expression |-> expression, sense |-> sense, rhs |-> rhs,
                 index |-> index, block_name |-> block_name]
       IN  IF BadExpr(expression)
           THEN /\ last' = Call("add_constraints", a, "ValueError", None)
                /\ UNCHANGED regVars
           ELSE /\ IF ~Truthy(block_name)
                   THEN /\ constraints' = DictSet(constraints, AutoKey(constraint_block),
                                                  <<expression, sense, rhs, index>>)
                        /\ constraint_block' = constraint_block + 1
                   ELSE /\ constraints' = DictSet(constraints, block_name,
                                                  <<expression, sense, index>>)
                        /\ UNCHANGED constraint_block
                /\ last' = Call("add_constraints", a, "none", None)
                /\ UNCHANGED <<variables, objective_expr, objective_sense, frames>>
    /\ UNCHANGED <<made, genVars, wrVars>>

----------------------------------------------------------------------------
(* sum                                                                     *)

\* `lambda: (i for i in seq)`: an index producer the caller passes
IndexLambda(seq) == [t |-> "function", f |-> "index", seq |-> seq]

\* the lambda sum returns, closing over var, coefficients and index
Factory(var, coefficients, index) ==
    IF ~Truthy(coefficients)
    THEN [t |-> "function", f |-> "sum", var |-> var, coefficients |-> None,
          index |-> index]
    ELSE [t |-> "function", f |-> "sum", var |-> var, coefficients |-> coefficients,
          index |-> index]

\* the index sum closes over: the argument, else the variable's default_index
ResolveIndex(vs, var, index) ==
    IF ~Truthy(index) THEN vs[var].default_index ELSE index

\* a lookup of the variable made whether or not an index was passed
SumRaisesUndeclared(vs, var, index) == var \notin DOMAIN vs

\* self.variables[var] raises KeyError
SumRaises(vs, var, index) == ~Truthy(index) /\ var \notin DOMAIN vs

Sum(var, coefficients, index) ==
    /\ pc = "idle"
    /\ calls < MaxCalls
    /\ calls' = calls + 1
    /\ LET a == [var |-> var, coefficients |-> coefficients, index |-> index]
       IN  IF SumRaises(variables, var, index)
           THEN /\ last' = Call("sum", a, "ValueError", None)
                /\ UNCHANGED made
           ELSE LET fac == Factory(var, coefficients, ResolveIndex(variables, var, index))
                IN  /\ last' = Call("sum", a, "none", fac)
                    /\ made' = IF Len(made) < MaxMade THEN Append(made, fac) ELSE made
    /\ UNCHANGED <<regVars, genVars, wrVars>>

----------------------------------------------------------------------------
(* The generators the factories return.                                    *)

\* f'{var}_{i}' and f'{coefficients[i]} {var}_{i}'
Term(var, coefficients, i) ==
    IF coefficients = None
    THEN var \o <<"_">> \o IntStr(i)
    ELSE IntStr(coefficients.v[i]) \o <<" ">> \o var \o <<"_">> \o IntStr(i)

\* an index() that hands out again the iterator it made before
IndexCallOnce(index, h) ==
    IF \E a \in 1..Len(h) : h[a].seq = index.seq
    THEN [it |-> CHOOSE a \in 1..Len(h) : h[a].seq = index.seq, heap |-> h]
    ELSE [it |-> Len(h) + 1, heap |-> Append(h, [seq |-> index.seq, pos |-> 0])]

\* index(): a fresh iterator over the producer's sequence, at a new address
IndexCall(index, h) ==
    [it |-> Len(h) + 1, heap |-> Append(h, [seq |-> index.seq, pos |-> 0])]

\* a factory that looks its variable's default_index up when it is called
CallFactoryLate(lam, h) ==
    IF Type(lam) # "function" \/ Type(lam.index) # "function"
    THEN [exc |-> "TypeError", gen |-> None, heap |-> h]
    ELSE LET r == IndexCall(IF lam.var \in DOMAIN variables
                            THEN variables[lam.var].default_index
                            ELSE lam.index, h)
         IN  [exc |-> "none",
              gen |-> [t |-> "generator", fac |-> lam, it |-> r.it],
              heap |-> r.heap]

\* lam(): evaluating the generator expression calls index() at once
CallFactory(lam, h) ==
    IF Type(lam) # "function" \/ Type(lam.index) # "function"
    THEN [exc |-> "TypeError", gen |-> None, heap |-> h]
    ELSE LET r == IndexCall(lam.index, h)
         IN  [exc |-> "none",
              gen |-> [t |-> "generator", fac |-> lam, it |-> r.it],
              heap |-> r.heap]

\* next(gen): the next term, StopIteration, or the KeyError of coefficients[i]
GenNext(gen, h) ==
    LET it == h[gen.it]
    IN  IF it.pos >= Len(it.seq)
        THEN [res |-> "StopIteration", word |-> <<>>, heap |-> h]
        ELSE LET i  == it.seq[it.pos + 1]
                 h2 == [h EXCEPT ![gen.it].pos = @ + 1]
                 c  == gen.fac.coefficients
             IN  IF c # None /\ i \notin DOMAIN c.v
                 THEN [res |-> "KeyError", word |-> <<>>, heap |-> h2]
                 ELSE [res |-> "yield", word |-> Term(gen.fac.var, c, i), heap |-> h2]

\* the caller calls a factory it holds and keeps the generator
InvokeFactory(j) ==
    /\ pc = "idle"
    /\ j \in 1..Len(made)
    /\ Len(gens) < MaxGens
    /\ LET r == CallFactory(made[j], heap)
       IN  IF r.exc # "none"
           THEN /\ last' = Call("factory", [lam |-> made[j]], r.exc, None)
                /\ UNCHANGED <<heap, gens>>
           ELSE /\ heap' = r.heap
                /\ gens' = Append(gens, [gen |-> r.gen, out |-> <<>>, state |-> "open"])
                /\ UNCHANGED last
    /\ UNCHANGED <<regVars, made, wrVars, calls>>

\* the caller calls next() on a generator it holds
GenStep(g) ==
    /\ pc = "idle"
    /\ g \in 1..Len(gens)
    /\ gens[g].state = "open"
    /\ LET r == GenNext(gens[g].gen, heap)
       IN  /\ heap' = r.heap
           /\ gens' = [gens EXCEPT
                         ![g].out = IF r.res = "yield" THEN Append(@, r.word) ELSE @,
                         ![g].state = IF r.res = "yield" THEN "open" ELSE r.res]
    /\ UNCHANGED <<regVars, made, wrVars, last, calls>>

----------------------------------------------------------------------------
(* write_expr and write                                                    *)

\* the width budget of an expression line
LineLimit == 80

\* a sign placement that prefixes every word
PrefixedAlways(word) == <<" ", "+", " ">> \o word

\* `if next_word[0] != '-': next_word = ' + ' + next_word`
Prefixed(word) == IF word[1] # "-" THEN <<" ", "+", " ">> \o word ELSE word

\* the width test made before the word is counted
FitsBeforeCounting(ll, next_word) == ll <= LineLimit

\* `line_length += len(next_word)`, then `if line_length <= 80`
Fits(ll, next_word) == ll + Len(next_word) <= LineLimit

\* fobj.write(''.join(line + ['\n']))
Flush(f, ln) == Append(f, Join(ln) \o <<NL>>)

\* the running call ends by raising e
Raise(e) ==
    /\ pc' = "raised"
    /\ last' = [last EXCEPT !.exc = e]

InitWriter ==
    /\ pc = "idle"
    /\ caller = "user"
    /\ expr = None
    /\ k = 0
    /\ comp = None
    /\ line = <<>>
    /\ line_length = 0
    /\ appnd = None
    /\ sink = <<>>

\* write_expr(fobj, e, ap) called on a fresh file object, up to the for loop
WriteExprCall(e, ap) ==
    /\ pc = "idle"
    /\ calls < MaxCalls
    /\ calls' = calls + 1
    /\ caller' = "user"
    /\ expr' = e
    /\ appnd' = ap
    /\ sink' = <<>>
    /\ comp' = None
    /\ IF Type(e) = "str"
       THEN /\ pc' = "raised"
            /\ last' = Call("write_expr", [expr |-> e, appnd |-> ap], "ValueError", None)
            /\ UNCHANGED <<line, line_length, k>>
       ELSE /\ pc' = "for"
            /\ last' = Call("write_expr", [expr |-> e, appnd |-> ap], "pending", None)
            /\ line' = <<>>
            /\ line_length' = 0
            /\ k' = 1
    /\ UNCHANGED <<regVars, made, genVars>>

\* write(output_file): open, the sense header, then into write_expr
Write(output_file) ==
    /\ pc = "idle"
    /\ calls < MaxCalls
    /\ calls' = calls + 1
    /\ caller' = "write"
    /\ comp' = None
    /\ appnd' = None
    /\ IF objective_sense = Unset
       THEN /\ pc' = "raised"
            /\ last' = Call("write", [output_file |-> output_file], "AttributeError", None)
            /\ sink' = <<>>
            /\ UNCHANGED <<expr, line, line_length, k>>
       ELSE /\ pc' = "for"
            /\ last' = Call("write", [output_file |-> output_file], "pending", None)
            /\ sink' = <<objective_sense \o <<NL>>>>
            /\ expr' = objective_expr
            /\ line' = <<>>
            /\ line_length' = 0
            /\ k' = 1
    /\ UNCHANGED <<regVars, made, genVars>>

\* `for lam in expr: comp = lam()`
ForStep ==
    /\ pc = "for"
    /\ IF Type(expr) # "list"
       THEN /\ Raise("TypeError")
            /\ UNCHANGED <<heap, comp>>
       ELSE IF k > Len(expr.v)
       THEN /\ pc' = "appnd"
            /\ UNCHANGED <<heap, comp, last>>
       ELSE LET r == CallFactory(expr.v[k], heap)
            IN  IF r.exc # "none"
                THEN /\ Raise(r.exc)
                     /\ UNCHANGED <<heap, comp>>
                ELSE /\ pc' = "while"
                     /\ comp' = r.gen
                     /\ heap' = r.heap
                     /\ UNCHANGED last
    /\ UNCHANGED <<regVars, made, gens, caller, expr, k, line, line_length, appnd,
                   sink, calls>>

\* one turn of `while True`: next(comp), then the try body or the except clause
WhileStep ==
    /\ pc = "while"
    /\ LET r == GenNext(comp, heap)
           next_word == Prefixed(r.word)
       IN  /\ heap' = r.heap
           /\ CASE r.res = "yield" ->
                     /\ IF Fits(line_length, next_word)
                        THEN /\ line' = Append(line, next_word)
                             /\ line_length' = line_length + Len(next_word)
                             /\ UNCHANGED sink
                        ELSE /\ sink' = Flush(sink, line)
                             /\ line' = <<next_word>>
                             /\ line_length' = Len(next_word)
                     /\ UNCHANGED <<pc, k, last>>
                [] r.res = "StopIteration" ->
                     /\ sink' = IF Len(line) > 0 THEN Flush(sink, line) ELSE sink
                     /\ pc' = "for"
                     /\ k' = k + 1
                     /\ UNCHANGED <<line, line_length, last>>
                [] OTHER ->
                     /\ Raise(r.res)
                     /\ UNCHANGED <<k, line, line_length, sink>>
    /\ UNCHANGED <<regVars, made, gens, caller, expr, comp, appnd, calls>>

\* `if appnd: fobj.write([w for w in appnd] + ['\n'])`, then the return
AppndStep ==
    /\ pc = "appnd"
    /\ IF Truthy(appnd)
       \* file.write of a list raises TypeError
       THEN Raise("TypeError")
       ELSE IF caller = "write"
       THEN /\ pc' = "ST"
            /\ UNCHANGED last
       ELSE /\ pc' = "done"
            /\ last' = [last EXCEPT !.exc = "none"]
    /\ UNCHANGED <<regVars, made, genVars, caller, expr, k, comp, line, line_length,
                   appnd, sink, calls>>

ST == <<"S", "T", NL>>
END == <<"e", "n", "d">>

\* write, after write_expr returned: 'ST\n', 'end', and the return value
WriteTail ==
    /\ pc = "ST"
    /\ sink' = sink \o <<ST, END>>
    /\ pc' = "done"
    /\ last' = [last EXCEPT !.exc = "none", !.ret = PyStr(last.a.output_file)]
    /\ UNCHANGED <<regVars, made, genVars, caller, expr, k, comp, line, line_length,
                   appnd, calls>>

----------------------------------------------------------------------------
(* lazy_writer                                                             *)

\* the width budget of lazy_writer
BulkLimit == 255

\* iter(words): the generator a caller hands to lazy_writer, at a new address
WordIter(words, h) ==
    [gen  |-> [t |-> "generator", fac |-> None, it |-> Len(h) + 1],
     heap |-> Append(h, [seq |-> words, pos |-> 0])]

\* next(genr)
WordNext(gen, h) ==
    LET it == h[gen.it]
    IN  IF it.pos >= Len(it.seq)
        THEN [res |-> "StopIteration", word |-> <<>>, heap |-> h]
        ELSE [res |-> "yield", word |-> it.seq[it.pos + 1],
              heap |-> [h EXCEPT ![gen.it].pos = @ + 1]]

\* a writer that drops what is pending when the words end
DanglingDropped(f, ln) == f

\* `if len(line) > 0: f.write(''.join(line + ['\n']))`
Dangling(f, ln) == IF Len(ln) > 0 THEN Flush(f, ln) ELSE f

\* lazy_writer(fn, genr) with genr = iter(words), up to the loop: the file is
\* opened for writing, which empties it
LazyWriter(words) ==
    /\ pc = "idle"
    /\ calls < MaxCalls
    /\ calls' = calls + 1
    /\ LET r == WordIter(words, heap)
       IN  /\ comp' = r.gen
           /\ heap' = r.heap
    /\ pc' = "bulk"
    /\ line' = <<>>
    /\ line_length' = 0
    /\ sink' = <<>>
    /\ last' = Call("lazy_writer", [genr |-> words], "pending", None)
    /\ UNCHANGED <<regVars, made, gens, caller, expr, k, appnd>>

\* one turn of `while True`; on StopIteration the break, the write of the
\* dangling line and the return
BulkStep ==
    /\ pc = "bulk"
    /\ LET r == WordNext(comp, heap)
       IN  /\ heap' = r.heap
           /\ IF r.res = "yield"
              THEN /\ IF line_length + Len(r.word) <= BulkLimit
                      THEN /\ line' = Append(line, r.word)
                           /\ line_length' = line_length + Len(r.word)
                           /\ UNCHANGED sink
                      ELSE /\ sink' = Flush(sink, line)
                           /\ line' = <<r.word>>
                           /\ line_length' = Len(r.word)
                   /\ UNCHANGED <<pc, last>>
              ELSE /\ sink' = Dangling(sink, line)
                   /\ pc' = "done"
                   /\ last' = [last EXCEPT !.exc = "none"]
                   /\ UNCHANGED <<line, line_length>>
    /\ UNCHANGED <<regVars, made, gens, caller, expr, k, comp, appnd, calls>>

----------------------------------------------------------------------------
(* The inputs the specifications draw from.                                *)

X == <<"x">>
Y == <<"y">>

\* lambda: (i for i in range(4)), ... range(2), ... range(0)
I4 == IndexLambda(<<0, 1, 2, 3>>)
I2 == IndexLambda(<<0, 1>>)
I0 == IndexLambda(<<>>)

\* {0: 2, 1: 3, 2: -1, 3: 4}
Coef == PyDict((0 :> 2) @@ (1 :> 3) @@ (2 :> -1) @@ (3 :> 4))
\* {0: -7}: no coefficient for an index other than 0
CoefPart == PyDict(0 :> -7)

\* '<= 50'
Suffix == PyStr(<<"<", "=", " ", "5", "0">>)
\* 'x_0 + x_1': an expression given as a literal string
Literal == PyStr(<<"x", "_", "0", " ", "+", " ", "x", "_", "1">>)

\* the constraint sense '<=' and a block name 'c1'
LE == <<"<", "=">>
\* '=<', which is no constraint sense
EqLess == <<"=", "<">>
BlockName == PyStr(<<"c", "1">>)

FileName == <<"m", ".", "l", "p">>

Range(q) == { q[j] : j \in 1..Len(q) }

\* the non-empty sequences of at most n members of S
Seqs(S, n) == UNION { [1..m -> S] : m \in 1..n }

\* what a caller that holds the factories in fs passes as an expression: one
\* of them, or the list of all of them
HeldExprs(fs) == Range(fs) \cup {PyList(fs)}

InitCaller ==
    /\ made = <<>>
    /\ heap = <<>>
    /\ gens = <<>>
    /\ last = Call("__init__", None, "none", None)
    /\ calls = 0

Init == InitRegistry /\ InitCaller /\ InitWriter

----------------------------------------------------------------------------
(* Spec: a caller declares a model and writes it.                          *)

DeclareVariable ==
    \E di \in {None, I4} :
        AddVariable(X, "Binary", None, None, di)

MakeSum ==
    \E c \in {None, Coef}, index \in {None, I2} :
        Sum(X, c, index)

SetObjective ==
    \E e \in HeldExprs(made) \cup {Literal, PyInt(7)}, sense \in {MIN, MAX, <<"m", "i", "n">>} :
        AddObjective(e, sense)

DeclareConstraints ==
    \E e \in HeldExprs(made) \cup {Literal} :
        AddConstraints(e, LE, PyInt(50), None, None)

WriteModel == Write(FileName)

Next ==
    \/ DeclareVariable
    \/ MakeSum
    \/ SetObjective
    \/ DeclareConstraints
    \/ WriteModel
    \/ ForStep
    \/ WhileStep
    \/ AppndStep
    \/ WriteTail

Spec == Init /\ [][Next]_vars

----------------------------------------------------------------------------
(* SpecDecl: the declaration calls alone, over wider arguments.            *)

DeclVariable ==
    \E b \in {<<None, None>>, <<PyInt(5), None>>, <<None, PyFloat(1)>>},
       di \in {None, I4} :
        AddVariable(X, "Binary", b[1], b[2], di)

DeclSum ==
    \E var \in {X, Y}, c \in {None, Coef}, index \in {None, I2} :
        Sum(var, c, index)

DeclConstraints ==
    \E e \in HeldExprs(made) \cup {Literal, PyInt(7)}, sense \in {LE, EqLess},
       block_name \in {None, BlockName} :
        AddConstraints(e, sense, PyInt(50), None, block_name)

NextDecl ==
    \/ DeclVariable
    \/ DeclSum
    \/ DeclConstraints

SpecDecl == Init /\ [][NextDecl]_vars

----------------------------------------------------------------------------
(* SpecExpr: write_expr called on a list of factories, or on a literal.    *)

\* a variable name of n characters
V(n) == Rep("v", n)

\* factories whose terms are short, fill a line exactly, exceed it only with
\* the prefix, exceed it alone, are negative, are none, or fail
ExprFactories ==
    { Factory(X, None, I4),
      Factory(X, Coef, I4),
      Factory(V(36), None, I4),
      Factory(V(75), None, I2),
      Factory(V(76), None, I2),
      Factory(V(79), None, I2),
      Factory(V(75), CoefPart, IndexLambda(<<0>>)),
      Factory(V(76), CoefPart, IndexLambda(<<0>>)),
      Factory(X, None, I0),
      Factory(X, CoefPart, I2) }

ExprCall ==
    \E e \in { PyList(q) : q \in Seqs(ExprFactories, MaxFactories) } \cup {Literal},
       ap \in {None, Suffix} :
        WriteExprCall(e, ap)

NextExpr ==
    \/ ExprCall
    \/ ForStep
    \/ WhileStep
    \/ AppndStep

SpecExpr == Init /\ [][NextExpr]_vars

----------------------------------------------------------------------------
(* SpecGen: a caller builds factories, calls them, and drains the          *)
(* generators in any interleaving.                                         *)

GenVariable == AddVariable(X, "Binary", None, None, I4)

GenSum ==
    \E c \in {None, Coef}, index \in {None, I2} :
        Sum(X, c, index)

GenInvoke == \E j \in 1..MaxMade : InvokeFactory(j)

GenNextTerm == \E g \in 1..MaxGens : GenStep(g)

NextGen ==
    \/ GenVariable
    \/ GenSum
    \/ GenInvoke
    \/ GenNextTerm

SpecGen == Init /\ [][NextGen]_vars

----------------------------------------------------------------------------
(* SpecKinds: add_variable over every kind of self.var_types and over      *)
(* names that are none of them, for two variable names.                    *)

\* kinds the caller may pass that self.var_types does not list
OtherKinds == { "Boolean", "binary", "Continuous" }

KindVariable ==
    \E name \in {X, Y}, kind \in var_types \cup OtherKinds :
        AddVariable(name, kind, None, None, None)

KindDefault ==
    \E kind \in {"Binary", "Boolean"} : AddVariable(X, kind, None, None, I4)

NextKinds ==
    \/ KindVariable
    \/ KindDefault

SpecKinds == Init /\ [][NextKinds]_vars

----------------------------------------------------------------------------
(* SpecBind: a variable declared and redeclared with another               *)
(* default_index, between sums over it and calls of the factories.         *)

BindVariable ==
    \E di \in {I4, I2} : AddVariable(X, "Binary", None, None, di)

BindSum ==
    \E c \in {None, Coef} : Sum(X, c, None)

BindInvoke == \E j \in 1..MaxMade : InvokeFactory(j)

BindNextTerm == \E g \in 1..MaxGens : GenStep(g)

NextBind ==
    \/ BindVariable
    \/ BindSum
    \/ BindInvoke
    \/ BindNextTerm

SpecBind == Init /\ [][NextBind]_vars

----------------------------------------------------------------------------
(* SpecBulk: lazy_writer over sequences of words that fill a line exactly, *)
(* overflow it, and exceed it alone.                                       *)

\* words of 100, 155, 256 and 1 characters
Words == { Rep("a", 100), Rep("b", 155), Rep("c", BulkLimit + 1), <<"d">> }

BulkCall ==
    \E ws \in Seqs(Words, MaxWords) \cup {<<>>} : LazyWriter(ws)

NextBulk ==
    \/ BulkCall
    \/ BulkStep

SpecBulk == Init /\ [][NextBulk]_vars

----------------------------------------------------------------------------
(* What the claims speak of.                                               *)

Plus == <<" ", "+", " ">>

IsPrefix(p, q) == Len(p) <= Len(q) /\ SubSeq(q, 1, Len(p)) = p

\* a factory whose generator can be drained: its index is a producer and its
\* coefficients, when it has any, cover the index
Drains(f) ==
    /\ Type(f) = "function"
    /\ Type(f.index) = "function"
    /\ f.coefficients # None => Range(f.index.seq) \subseteq DOMAIN f.coefficients.v

\* the terms of a factory that drains, in order
TermsOf(f) == [j \in 1..Len(f.index.seq) |-> Term(f.var, f.coefficients, f.index.seq[j])]

\* the terms the factories of a list expression can yield
TermSet(e) ==
    UNION { { Term(e.v[j].var, e.v[j].coefficients, i) :
                i \in { n \in Range(e.v[j].index.seq) :
                          \/ e.v[j].coefficients = None
                          \/ n \in DOMAIN e.v[j].coefficients.v } } :
            j \in { n \in 1..Len(e.v) : Type(e.v[n]) = "function"
                                           /\ Type(e.v[n].index) = "function" } }

\* a list expression all of whose members drain
DrainsAll(e) == Type(e) = "list" /\ \A j \in 1..Len(e.v) : Drains(e.v[j])

\* the terms of all the factories of a list expression, in factory and term order
RECURSIVE TermsOfAll(_)
TermsOfAll(fs) == IF fs = <<>> THEN <<>> ELSE TermsOf(Head(fs)) \o TermsOfAll(Tail(fs))

\* position i of s lies in an occurrence of ' + '
InPlus(s, i) ==
    \E j \in (i - 2)..i :
        j >= 1 /\ j + 2 <= Len(s) /\ SubSeq(s, j, j + 2) = Plus

\* a string without its newlines and its ' + ' prefixes
Strip(s) ==
    LET Keep(i) == s[i] # NL /\ ~InPlus(s, i)
        kept == SelectSeq([i \in 1..Len(s) |-> i], Keep)
    IN  [n \in 1..Len(kept) |-> s[kept[n]]]

\* s is made of whole terms of T, each bare or after an inserted ' + '
RECURSIVE WholeTerms(_, _)
WholeTerms(s, T) ==
    \/ s = <<>>
    \/ \E t \in T :
          \/ IsPrefix(t, s) /\ WholeTerms(SubSeq(s, Len(t) + 1, Len(s)), T)
          \/ IsPrefix(Plus \o t, s) /\ WholeTerms(SubSeq(s, Len(t) + 4, Len(s)), T)

\* a written line without its newline
Body(w) == SubSeq(w, 1, Len(w) - 1)

\* the suffix line of an auto-keyed block (expression, sense, rhs, index)
SuffixLine(b) == b[2] \o <<" ">> \o IntStr(b[3].v) \o <<NL>>

\* the terms joined by ' + '
RECURSIVE JoinPlus(_)
JoinPlus(ts) ==
    IF ts = <<>> THEN <<>>
    ELSE IF Len(ts) = 1 THEN ts[1]
    ELSE Head(ts) \o Plus \o JoinPlus(Tail(ts))

WriteReturned == pc = "done" /\ last.op = "write"

----------------------------------------------------------------------------
(* C1: when write returns, the file holds the sense header, the objective  *)
(* lines, 'ST', then for every constraint block in declaration order its   *)
(* expression lines and its suffix line, then 'end'; and write returns the *)
(* file's name.                                                            *)
C1_WriteEmitsEveryBlock ==
    WriteReturned =>
        /\ last.ret = PyStr(last.a.output_file)
        /\ sink[1] = objective_sense \o <<NL>>
        /\ sink[Len(sink)] = END
        /\ \E p \in 2..(Len(sink) - 1) :
              /\ sink[p] = ST
              /\ \E f \in [1..Len(constraints) -> (p + 1)..(Len(sink) - 1)] :
                    /\ \A i, j \in 1..Len(constraints) : i < j => f[i] < f[j]
                    /\ \A i \in 1..Len(constraints) :
                          sink[f[i]] = SuffixLine(constraints[i].val)

----------------------------------------------------------------------------
(* C2: when write_expr returns, the lines it wrote, without the newlines   *)
(* and the ' + ' prefixes, are the terms of all factories in factory and   *)
(* term order, each once.                                                  *)
C2_NoLossNoDuplication ==
    (pc = "done" /\ last.op = "write_expr" /\ DrainsAll(expr)) =>
        Strip(Join(sink)) = Join(TermsOfAll(expr.v))

----------------------------------------------------------------------------
(* C3, as claimed: every line write_expr wrote is at most 80 characters    *)
(* long, inserted prefix included, unless it is one term whose own length, *)
(* without the prefix, exceeds 80; and every line is made of whole terms.  *)
C3_WidthByTermLength ==
    (last.op = "write_expr" /\ Type(expr) = "list") =>
        \A j \in 1..Len(sink) :
            /\ \/ Len(Body(sink[j])) <= LineLimit
               \/ \E t \in TermSet(expr) :
                     /\ Len(t) > LineLimit
                     /\ Body(sink[j]) \in {t, Plus \o t}
            /\ WholeTerms(Body(sink[j]), TermSet(expr))

(* C3, amended: every line write_expr wrote is at most 80 characters long, *)
(* unless it is one term that, with its inserted prefix, is longer than    *)
(* 80; and every line is made of whole terms.                              *)
C3_WidthByWordLength ==
    (last.op = "write_expr" /\ Type(expr) = "list") =>
        \A j \in 1..Len(sink) :
            /\ \/ Len(Body(sink[j])) <= LineLimit
               \/ \E t \in TermSet(expr) :
                     Body(sink[j]) \in {t, Plus \o t}
            /\ WholeTerms(Body(sink[j]), TermSet(expr))

\* a line of 81 characters was written: one term of 78 after its ' + '
C3_Witness ==
    /\ last.op = "write_expr"
    /\ Type(expr) = "list"
    /\ \E j \in 1..Len(sink) :
          /\ Len(Body(sink[j])) = LineLimit + 1
          /\ \E t \in TermSet(expr) :
                Len(t) = LineLimit - 2 /\ Body(sink[j]) = Plus \o t

----------------------------------------------------------------------------
(* C4: for an objective that is one coefficient-free factory over the      *)
(* variable's default index, whose terms fit on one line, write leaves the *)
(* sense header, one line of the terms joined by ' + ' with nothing before *)
(* the first term, 'ST' and 'end'.                                         *)
C4_ObjectiveLine ==
    (/\ WriteReturned
     /\ Len(objective_expr.v) = 1
     /\ Drains(objective_expr.v[1])
     /\ objective_expr.v[1].coefficients = None
     /\ objective_expr.v[1].var \in DOMAIN variables
     /\ objective_expr.v[1].index = variables[objective_expr.v[1].var].default_index
     /\ Len(JoinPlus(TermsOf(objective_expr.v[1]))) <= LineLimit)
    => sink = << objective_sense \o <<NL>>,
                 JoinPlus(TermsOf(objective_expr.v[1])) \o <<NL>>,
                 ST, END >>

----------------------------------------------------------------------------
(* C5: after add_variable was given a scalar bound b, calling the stored   *)
(* bound returns b.                                                        *)
C5_ConstantProducer ==
    (last.op = "add_variable" /\ last.exc = "none") =>
        /\ IsScalar(last.a.upper_bounds) =>
              /\ Type(variables[last.a.name].upper_bounds) = "function"
              /\ CallBound(variables[last.a.name].upper_bounds, frames)
                    = last.a.upper_bounds
        /\ IsScalar(last.a.lower_bounds) =>
              /\ Type(variables[last.a.name].lower_bounds) = "function"
              /\ CallBound(variables[last.a.name].lower_bounds, frames)
                    = last.a.lower_bounds

----------------------------------------------------------------------------
(* C6: any two generators made by calling the same factory yield the same  *)
(* terms in the same order, however far each has been consumed: what one   *)
(* has yielded is a prefix of what the other has, and two drained ones     *)
(* have yielded the same sequence.                                         *)
C6_Restartable ==
    \A g, h \in 1..Len(gens) :
        gens[g].gen.fac = gens[h].gen.fac =>
            /\ IsPrefix(gens[g].out, gens[h].out) \/ IsPrefix(gens[h].out, gens[g].out)
            /\ (gens[g].state = "StopIteration" /\ gens[h].state = "StopIteration")
                  => gens[g].out = gens[h].out

\* a factory was called twice; the first generator stopped after one term,
\* the second was drained and yielded more
C6_Witness ==
    /\ Len(gens) >= 2
    /\ gens[1].gen.fac = gens[2].gen.fac
    /\ gens[1].state = "open"
    /\ Len(gens[1].out) = 1
    /\ gens[2].state = "StopIteration"
    /\ Len(gens[2].out) >= 2

----------------------------------------------------------------------------
(* C7: add_constraints with a block_name that is already a key of the      *)
(* constraints fails and leaves the constraints as they were.              *)
C7_DuplicateNameRejected ==
    [][ (/\ calls' = calls + 1
         /\ last'.op = "add_constraints"
         /\ Truthy(last'.a.block_name)
         /\ HasKey(constraints, last'.a.block_name))
        => (last'.exc # "none" /\ constraints' = constraints) ]_vars

----------------------------------------------------------------------------
\* the stored expression e holds factories only
FactoriesOnly(e) ==
    \/ Type(e) = "function"
    \/ Type(e) = "list" /\ \A j \in 1..Len(e.v) : Type(e.v[j]) = "function"

----------------------------------------------------------------------------
(* C9: sum with no index for a declared variable that has no default_index *)
(* fails and returns no factory.                                           *)
C9_SumFailsWithoutDefaultIndex ==
    (/\ last.op = "sum"
     /\ ~Truthy(last.a.index)
     /\ last.a.var \in DOMAIN variables
     /\ variables[last.a.var].default_index = None)
    => (last.exc # "none" /\ last.ret = None)

----------------------------------------------------------------------------
(* C10: write_expr called with a suffix, on factories that all drain,      *)
(* returns, and the last string it wrote is the suffix and a newline.      *)
C10_SuffixWritten ==
    (/\ last.op = "write_expr"
     /\ Truthy(last.a.appnd)
     /\ DrainsAll(expr)
     /\ pc \in {"done", "raised"})
    => (/\ pc = "done"
        /\ last.exc = "none"
        /\ Len(sink) > 0
        /\ sink[Len(sink)] = appnd.v \o <<NL>>)

----------------------------------------------------------------------------
\* s is made of terms of T, each as the sign rule writes it: a term that
\* begins with '-' bare, any other term after an inserted ' + '
RECURSIVE SignedTerms(_, _)
SignedTerms(s, T) ==
    \/ s = <<>>
    \/ \E t \in T :
          /\ IF t[1] = "-" THEN IsPrefix(t, s) ELSE IsPrefix(Plus \o t, s)
          /\ SignedTerms(SubSeq(s, (IF t[1] = "-" THEN Len(t) ELSE Len(t) + 3) + 1,
                                Len(s)), T)

----------------------------------------------------------------------------
\* the auto-keyed blocks of the constraints cs, in insertion order
AutoKeyed(cs) == SelectSeq(cs, LAMBDA it : Type(it.key) = "int")

(* C12: the counter starts at 0; a successful add_constraints without a    *)
(* block_name stores its block under the counter's value, a key not used   *)
(* before, and increments the counter; a call with a block_name and a      *)
(* failing call leave the counter and the auto-keyed blocks unchanged; so  *)
(* the auto-keyed blocks carry the keys 0, 1, 2, ... in declaration order  *)
(* and the counter equals their number.                                    *)
C12_CounterCountsAutoKeys ==
    /\ constraint_block = 0
    /\ [][ (calls' = calls + 1 /\ last'.op = "add_constraints") =>
            LET ak == AutoKeyed(constraints')
            IN  /\ IF last'.exc = "none" /\ ~Truthy(last'.a.block_name)
                   THEN /\ constraint_block' = constraint_block + 1
                        /\ ~HasKey(constraints, PyInt(constraint_block))
                        /\ ak = Append(AutoKeyed(constraints),
                                       [key |-> PyInt(constraint_block),
                                        val |-> <<last'.a.expression, last'.a.sense,
                                                  last'.a.rhs, last'.a.index>>])
                   ELSE /\ constraint_block' = constraint_block
                        /\ ak = AutoKeyed(constraints)
                /\ Len(ak) = constraint_block'
                /\ \A i \in 1..Len(ak) : ak[i].key = PyInt(i - 1) ]_vars

\* two blocks were auto-keyed, one was named, and the last call failed
C12_Witness ==
    /\ constraint_block = 2
    /\ HasKey(constraints, PyInt(0))
    /\ HasKey(constraints, PyInt(1))
    /\ HasKey(constraints, BlockName)
    /\ last.op = "add_constraints"
    /\ last.exc = "ValueError"

----------------------------------------------------------------------------
\* the eleven kinds of the enumerated set, as the claim lists them
EnumeratedKinds ==
    { "Real", "Integer", "Binary" }
      \cup { "nonnegative_Real", "nonpositive_Real", "positive_Real", "negative_Real" }
      \cup { "nonnegative_Integer", "nonpositive_Integer", "positive_Integer",
             "negative_Integer" }

(* C13: add_variable with one of the eleven kinds returns and stores the   *)
(* kind and the default_index under the name, leaving the other variables  *)
(* alone; with any other kind it raises ValueError and the variables are   *)
(* what they were.                                                         *)
C13_KindsAccepted ==
    [][ (calls' = calls + 1 /\ last'.op = "add_variable") =>
          IF last'.a.variable_type \in EnumeratedKinds
          THEN /\ last'.exc = "none"
               /\ DOMAIN variables' = DOMAIN variables \cup {last'.a.name}
               /\ variables'[last'.a.name].variable_type = last'.a.variable_type
               /\ variables'[last'.a.name].default_index = last'.a.default_index
               /\ \A n \in DOMAIN variables \ {last'.a.name} :
                     variables'[n] = variables[n]
          ELSE /\ last'.exc = "ValueError"
               /\ variables' = variables ]_vars

\* both names are declared, and a redeclaration of one with an unlisted
\* kind has just failed
C13_Witness ==
    /\ last.op = "add_variable"
    /\ last.exc = "ValueError"
    /\ last.a.name = X
    /\ last.a.variable_type = "Boolean"
    /\ DOMAIN variables = {X, Y}
    /\ variables[X].variable_type = "Binary"
    /\ variables[Y].variable_type = "negative_Real"

----------------------------------------------------------------------------
----------------------------------------------------------------------------
\* '<=', '>=' and '=='
ConstraintSenses == { <<"<", "=">>, <<">", "=">>, <<"=", "=">> }

(* C15: add_constraints with a sense that is none of '<=', '>=', '=='      *)
(* fails, and every stored constraint block has one of the three senses.   *)
C15_SenseValidated ==
    /\ (last.op = "add_constraints" /\ last.a.sense \notin ConstraintSenses)
          => last.exc # "none"
    /\ \A j \in 1..Len(constraints) : constraints[j].val[2] \in ConstraintSenses

----------------------------------------------------------------------------
(* C16: every turn of the loop of write_expr that writes a line leaves the *)
(* buffer empty or holding only the word it has just taken from the        *)
(* generator and not written.                                              *)
C16_BufferReleasedOnFlush ==
    [][ (pc = "while" /\ Len(sink') > Len(sink)) =>
          LET r == GenNext(comp, heap)
          IN  \/ line' = <<>>
              \/ r.res = "yield" /\ line' = <<Prefixed(r.word)>> ]_vars

----------------------------------------------------------------------------
(* C17: a successful add_constraints stores, under the block's key, the    *)
(* expression, sense, rhs and index it was passed, and no call changes or  *)
(* removes a block that is already stored.                                 *)
C17_BlockRecordedAndKept ==
    [][ /\ (calls' = calls + 1 /\ last'.op = "add_constraints" /\ last'.exc = "none") =>
              LET key == IF Truthy(last'.a.block_name)
                         THEN last'.a.block_name
                         ELSE PyInt(constraint_block)
              IN  /\ HasKey(constraints', key)
                  /\ Get(constraints', key) = <<last'.a.expression, last'.a.sense,
                                                last'.a.rhs, last'.a.index>>
        /\ \A j \in 1..Len(constraints) :
              /\ j <= Len(constraints')
              /\ constraints'[j] = constraints[j] ]_vars

----------------------------------------------------------------------------
\* the lines ls are the words ws in order, each word whole on one line, each
\* line closed by a newline
RECURSIVE Chunked(_, _)
Chunked(ls, ws) ==
    IF ls = <<>>
    THEN ws = <<>>
    ELSE \E n \in 0..Len(ws) :
            /\ ls[1] = Join(SubSeq(ws, 1, n)) \o <<NL>>
            /\ Chunked(Tail(ls), SubSeq(ws, n + 1, Len(ws)))

\* the lines of f joined, without their newlines
RECURSIVE Bodies(_)
Bodies(f) == IF f = <<>> THEN <<>> ELSE Body(f[1]) \o Bodies(Tail(f))

(* C18: while lazy_writer runs, the lines written followed by the pending  *)
(* line are the words taken so far, in order and each whole on one line;   *)
(* when it has returned, the lines written are all the words so arranged,  *)
(* and joined without their newlines they are the words joined.            *)
C18_BulkWriterKeepsWords ==
    last.op = "lazy_writer" =>
        LET words == last.a.genr
            taken == SubSeq(words, 1, heap[comp.it].pos)
        IN  /\ pc = "bulk" =>
                  /\ Chunked(sink, SubSeq(taken, 1, Len(taken) - Len(line)))
                  /\ line = SubSeq(taken, Len(taken) - Len(line) + 1, Len(taken))
            /\ pc = "done" =>
                  /\ Chunked(sink, words)
                  /\ Bodies(sink) = Join(words)

\* two words filled a line to the limit, a third went to a second line that
\* was written when the words ended
C18_Witness ==
    /\ last.op = "lazy_writer"
    /\ pc = "done"
    /\ last.a.genr = <<Rep("a", 100), Rep("b", 155), <<"d">>>>
    /\ sink = << Rep("a", 100) \o Rep("b", 155) \o <<NL>>, <<"d", NL>> >>

----------------------------------------------------------------------------
(* C20: no string that write_expr or lazy_writer writes is the newline     *)
(* alone.                                                                  *)
C20_NoEmptyLine ==
    last.op \in {"write_expr", "lazy_writer"} =>
        \A j \in 1..Len(sink) : sink[j] # <<NL>>

----------------------------------------------------------------------------
(* C19: the factory sum returns when it is given no index holds the        *)
(* default_index the variable has at that call; a factory the caller holds *)
(* never changes; and whatever the variables are when a factory is called  *)
(* or its generator advanced, the generator yields the terms over the      *)
(* index the factory holds, in order, and all of them once it has stopped. *)
C19_BoundAtSumTime ==
    /\ [](/\ (last.op = "sum" /\ last.exc = "none" /\ ~Truthy(last.a.index))
                => last.ret.index = variables[last.a.var].default_index
          /\ \A g \in 1..Len(gens) :
                /\ IsPrefix(gens[g].out, TermsOf(gens[g].gen.fac))
                /\ gens[g].state = "StopIteration"
                      => gens[g].out = TermsOf(gens[g].gen.fac))
    /\ [][ \A j \in 1..Len(made) : j <= Len(made') /\ made'[j] = made[j] ]_vars

\* sum was called while the default_index was 0..3 and again after the
\* variable was redeclared with 0..1; the second factory was called first,
\* and the first factory, called after it, still yielded four terms
C19_Witness ==
    /\ X \in DOMAIN variables
    /\ variables[X].default_index = I2
    /\ Len(made) = 2
    /\ made[1].index = I4
    /\ made[2].index = I2
    /\ Len(gens) = 2
    /\ gens[1].gen.fac = made[2]
    /\ gens[2].gen.fac = made[1]
    /\ gens[2].state = "StopIteration"
    /\ Len(gens[2].out) = 4

====
